---- MODULE Spec2Model ----
(***************************************************************************)
(* The compaction-filter-factory bridge (src/compaction_filter_factory.rs) *)
(* and the error classifier Error::kind (src/lib.rs) of rust-rocksdb.      *)
(*                                                                         *)
(* The engine drives the bridge from its compaction threads: one job per   *)
(* thread, each job entering the create trampoline, then calling the       *)
(* filter's callbacks through the handle it got, then destroying it.  The  *)
(* steps of different jobs interleave freely.                              *)
(***************************************************************************)
EXTENDS Integers, Sequences, FiniteSets, TLC

\* Number of compaction jobs the engine runs (possibly in parallel).
NJobs == 2
\* Number of keys the engine routes to one job at most.
MaxKeys == 2

Jobs == 1..NJobs
\* Heap addresses the allocator hands out for boxed filters; 0 is the null
\* pointer.  One address per job is enough for all jobs to be live at once,
\* and lets a later job get the address an earlier job released.
Addr == 1..NJobs

\* Values the engine's unsigned-char context accessors can return.
FlagValues == {0, 1, 255}

VARIABLES
    heap,        \* Addr -> heap cell of a boxed Filter (or a free cell)
    owned,       \* addresses owned by a live Box value on the Rust side
    factory,     \* the user factory behind raw_self
    job,         \* Jobs -> the engine's compaction job and its create frame
    outstanding, \* allocation counter: +1 per Box::new, -1 per release
    nameOut,     \* what the last name callback returned
    fault,       \* native-level fault of the process, "none" while it runs
    err,         \* an Error value (src/lib.rs), or none
    kindOut,     \* result of the last Error::kind call on err
    made,        \* the message the Error value was constructed with
    textOut      \* the text the last accessor of err returned or wrote

vars ==
    <<heap, owned, factory, job, outstanding, nameOut, fault, err, kindOut,
      made, textOut>>
bridgeVars == <<heap, owned, factory, job, outstanding, nameOut, fault>>
errVars == <<err, kindOut, made, textOut>>

(***************************************************************************)
(* Data                                                                    *)
(***************************************************************************)

\* CompactionFilterContext before any job set it.
NoContext == [is_full_compaction |-> FALSE, is_manual_compaction |-> FALSE]

\* The engine's context object rocksdb_compactionfiltercontext_t, seen through
\* its two accessors.
RawContexts == [full : FlagValues, manual : FlagValues]
NoRaw == [full |-> 0, manual |-> 0]

FreeCell == [kind |-> "free", ctx |-> NoContext, count |-> 0, owner |-> 0]

\* The engine's rocksdb_compactionfilter_t: the state pointer and the three
\* callbacks registered with it.
NoHandle == [state |-> 0, destructor |-> "none", filter |-> "none", name |-> "none"]

IdleJob ==
    [pc |-> "idle", raw |-> NoRaw, context |-> NoContext, filter |-> FreeCell,
     filter_ptr |-> 0,
     handle |-> NoHandle, routed |-> 0, creates |-> 0, destroys |-> 0,
     finalCount |-> 0]

Live(h, a) == a \in Addr /\ h[a].kind = "filter"

(***************************************************************************)
(* src/compaction_filter_factory.rs                                        *)
(***************************************************************************)

from_raw_is_one(raw) ==
    [is_full_compaction |-> raw.full = 1,
     is_manual_compaction |-> raw.manual = 1]

\* CompactionFilterContext::from_raw: both accessors compared with 0.
from_raw(raw) ==
    [is_full_compaction |-> raw.full # 0,
     is_manual_compaction |-> raw.manual # 0]

FreshAddr_any(h) == Addr

FreshAddr_one_slot(h) == IF \A a \in Addr : h[a].kind = "free" THEN Addr ELSE {}

\* Box::new: the allocator returns an address that is not in use.
FreshAddr(h) == {a \in Addr : h[a].kind = "free"}

BoxIntoRaw_borrow(o, a) == o

\* Box::into_raw: the Box gives up ownership of the allocation; from here on
\* only the raw pointer denotes it.
BoxIntoRaw(o, a) == o \ {a}

compactionfilter_create_fixed_state(state) ==
    [state |-> 1,
     destructor |-> "compaction_filter::destructor_callback",
     filter |-> "compaction_filter::filter_callback",
     name |-> "compaction_filter::name_callback"]

compactionfilter_create_no_destructor(state) ==
    [state |-> state,
     destructor |-> "none",
     filter |-> "compaction_filter::filter_callback",
     name |-> "compaction_filter::name_callback"]

\* ffi::rocksdb_compactionfilter_create(filter_ptr, Some(destructor_callback),
\* Some(filter_callback), Some(name_callback)): the handle the engine gets.
rocksdb_compactionfilter_create(state) ==
    [state |-> state,
     destructor |-> "compaction_filter::destructor_callback",
     filter |-> "compaction_filter::filter_callback",
     name |-> "compaction_filter::name_callback"]

\* The value the user factory's create returns for a context: a Filter
\* specialised for the job, counting its decide calls from 0.
NewFilter(context, j) ==
    [kind |-> "filter", ctx |-> context, count |-> 0, owner |-> j]

InCreate(j) == job[j].pc \in {"entered", "created", "boxed"}

\* create_compaction_filter_callback, lines 73-74: the engine enters the
\* trampoline for a new job with its context object; the factory is borrowed
\* mutably and the context translated.
CreateEnter(j, raw) ==
    /\ fault = "none"
    /\ factory.live
    /\ job[j].pc = "idle"
    /\ job' = [job EXCEPT ![j].pc = "entered", ![j].raw = raw,
                          ![j].context = from_raw(raw)]
    /\ UNCHANGED <<heap, owned, factory, outstanding, nameOut, fault>>
    /\ UNCHANGED errVars

\* line 75, self_.create(context) returns: the user factory ran once through
\* its &mut self and counted the call; the context was moved into the call and
\* the Filter it returned is on the trampoline's stack.  The trampoline does
\* not serialise the create calls of jobs running in parallel; the factory
\* modelled here keeps its count with synchronisation of its own, as the
\* design asks of a factory.
UserCreate(j) ==
    /\ fault = "none"
    /\ job[j].pc = "entered"
    /\ factory' = [factory EXCEPT !.created = @ + 1]
    /\ job' = [job EXCEPT ![j].pc = "created", ![j].creates = @ + 1,
                          ![j].filter = NewFilter(job[j].context, j),
                          ![j].raw = NoRaw, ![j].context = NoContext]
    /\ UNCHANGED <<heap, owned, outstanding, nameOut, fault>>
    /\ UNCHANGED errVars

\* line 75, self_.create(context) panics.  Nothing in the extern "C" function
\* catches the unwinding: the build either aborts the process at the boundary
\* or lets the unwinding run into the engine's frames.
UserCreatePanic(j) ==
    /\ fault = "none"
    /\ job[j].pc = "entered"
    /\ job' = [job EXCEPT ![j].pc = "panicked", ![j].creates = @ + 1,
                          ![j].raw = NoRaw, ![j].context = NoContext]
    /\ fault' \in {"abort", "unwind"}
    /\ UNCHANGED <<heap, owned, factory, outstanding, nameOut>>
    /\ UNCHANGED errVars

\* lines 75 and 77: Box::new moves the Filter to the heap, Box::into_raw turns
\* the Box into the raw pointer filter_ptr.
BoxFilter(j, a) ==
    /\ fault = "none"
    /\ job[j].pc = "created"
    /\ a \in FreshAddr(heap)
    /\ heap' = [heap EXCEPT ![a] = job[j].filter]
    /\ owned' = BoxIntoRaw(owned \cup {a}, a)
    /\ outstanding' = outstanding + 1
    /\ job' = [job EXCEPT ![j].pc = "boxed", ![j].filter = FreeCell,
                          ![j].filter_ptr = a]
    /\ UNCHANGED <<factory, nameOut, fault>>
    /\ UNCHANGED errVars

CreateReturn_consumes_factory(j) ==
    /\ fault = "none"
    /\ job[j].pc = "boxed"
    /\ job' = [job EXCEPT ![j].pc = "running",
                          ![j].handle = rocksdb_compactionfilter_create(job[j].filter_ptr),
                          ![j].filter_ptr = 0]
    /\ factory' = [factory EXCEPT !.live = FALSE]
    /\ owned' = owned \ {job[j].filter_ptr}
    /\ UNCHANGED <<heap, outstanding, nameOut, fault>>
    /\ UNCHANGED errVars

\* lines 79-85: the engine's handle is made around filter_ptr and returned; the
\* frame ends, which drops every Box it still owns.
CreateReturn(j) ==
    /\ fault = "none"
    /\ job[j].pc = "boxed"
    /\ LET p == job[j].filter_ptr
           dropped == p \in owned
       IN /\ job' = [job EXCEPT ![j].pc = "running",
                                ![j].handle = rocksdb_compactionfilter_create(p),
                                ![j].filter_ptr = 0]
          /\ heap' = IF dropped THEN [heap EXCEPT ![p] = FreeCell] ELSE heap
          /\ owned' = owned \ {p}
          /\ outstanding' = IF dropped THEN outstanding - 1 ELSE outstanding
    /\ UNCHANGED <<factory, nameOut, fault>>
    /\ UNCHANGED errVars

FactoryDestructor_frees_filters ==
    /\ fault = "none"
    /\ factory.live
    /\ \A j \in Jobs : ~InCreate(j)
    /\ factory' = [factory EXCEPT !.live = FALSE]
    /\ heap' = [a \in Addr |-> FreeCell]
    /\ outstanding' = 0
    /\ UNCHANGED <<owned, job, nameOut, fault>>
    /\ UNCHANGED errVars

\* destructor_callback::<F>: drop(Box::from_raw(raw_self)) releases the
\* factory.  The engine calls it once, when it lets go of the factory, and
\* never while a thread is inside one of the factory's callbacks.
FactoryDestructor ==
    /\ fault = "none"
    /\ factory.live
    /\ \A j \in Jobs : ~InCreate(j)
    /\ factory' = [factory EXCEPT !.live = FALSE]
    /\ UNCHANGED <<heap, owned, job, outstanding, nameOut, fault>>
    /\ UNCHANGED errVars

FactoryName_consumes ==
    /\ fault = "none"
    /\ factory.live
    /\ nameOut' = factory.name
    /\ factory' = [factory EXCEPT !.live = FALSE]
    /\ UNCHANGED <<heap, owned, job, outstanding, fault>>
    /\ UNCHANGED errVars

\* name_callback::<F>: borrows the factory and returns the pointer of its name.
FactoryName ==
    /\ fault = "none"
    /\ factory.live
    /\ nameOut' = factory.name
    /\ UNCHANGED <<heap, owned, factory, job, outstanding, fault>>
    /\ UNCHANGED errVars

(***************************************************************************)
(* The filter's callbacks (compaction_filter.rs) and the engine calling    *)
(* them through the handle, as the design describes them.                  *)
(***************************************************************************)

\* decide: the engine routes one more key to job j and calls the handle's
\* filter callback with the handle's state; the callback borrows the Filter
\* there and runs its decide, which counts the call.  The Decision handed back
\* to the engine changes nothing in the bridge and is not kept.
Decide(j) ==
    /\ fault = "none"
    /\ job[j].pc = "running"
    /\ job[j].routed < MaxKeys
    /\ job[j].handle.filter # "none"
    /\ LET a == job[j].handle.state
       IN IF Live(heap, a)
          THEN /\ heap' = [heap EXCEPT ![a].count = @ + 1]
               /\ fault' = fault
          ELSE /\ heap' = heap
               /\ fault' = "use_after_free"
    /\ job' = [job EXCEPT ![j].routed = @ + 1]
    /\ UNCHANGED <<owned, factory, outstanding, nameOut>>
    /\ UNCHANGED errVars

\* name: the engine asks the filter of job j for its identifier.
FilterName(j) ==
    /\ fault = "none"
    /\ job[j].pc = "running"
    /\ job[j].handle.name # "none"
    /\ LET a == job[j].handle.state
       IN IF Live(heap, a)
          THEN /\ nameOut' = "filter"
               /\ fault' = fault
          ELSE /\ nameOut' = nameOut
               /\ fault' = "use_after_free"
    /\ UNCHANGED <<heap, owned, factory, job, outstanding>>
    /\ UNCHANGED errVars

\* destroy: job j ends and the engine deletes its handle, which calls the
\* registered destructor, if any, on the handle's state; the destructor takes
\* the allocation back into a Box and drops it.
Destroy(j) ==
    /\ fault = "none"
    /\ job[j].pc = "running"
    /\ LET a == job[j].handle.state
       IN IF job[j].handle.destructor = "none"
          THEN /\ job' = [job EXCEPT ![j].pc = "done"]
               /\ UNCHANGED <<heap, outstanding, fault>>
          ELSE IF Live(heap, a)
          THEN /\ job' = [job EXCEPT ![j].pc = "done", ![j].destroys = @ + 1,
                                     ![j].finalCount = heap[a].count]
               /\ heap' = [heap EXCEPT ![a] = FreeCell]
               /\ outstanding' = outstanding - 1
               /\ fault' = fault
          ELSE /\ job' = [job EXCEPT ![j].pc = "done", ![j].destroys = @ + 1]
               /\ heap' = heap
               /\ outstanding' = outstanding - 1
               /\ fault' = "double_free"
    /\ UNCHANGED <<owned, factory, nameOut>>
    /\ UNCHANGED errVars

(***************************************************************************)
(* src/lib.rs: Error and Error::kind                                       *)
(*                                                                         *)
(* A message is a sequence of characters, each a one-character string.     *)
(***************************************************************************)

\* The string patterns of the match in Error::kind, in the order of its arms.
StrNotFound ==
    <<"N", "o", "t", "F", "o", "u", "n", "d">>
StrCorruption ==
    <<"C", "o", "r", "r", "u", "p", "t", "i", "o", "n">>
StrNotSupported ==
    <<"N", "o", "t", " ", "i", "m", "p", "l", "e", "m", "e", "n", "t", "e",
      "d">>
StrInvalidArgument ==
    <<"I", "n", "v", "a", "l", "i", "d", " ", "a", "r", "g", "u", "m", "e",
      "n", "t">>
StrIOError ==
    <<"I", "O", " ", "e", "r", "r", "o", "r">>
StrMergeInProgress ==
    <<"M", "e", "r", "g", "e", " ", "i", "n", " ", "p", "r", "o", "g", "r",
      "e", "s", "s">>
StrIncomplete ==
    <<"R", "e", "s", "u", "l", "t", " ", "i", "n", "c", "o", "m", "p", "l",
      "e", "t", "e">>
StrShutdownInProgress ==
    <<"S", "h", "u", "t", "d", "o", "w", "n", " ", "i", "n", " ", "p", "r",
      "o", "g", "r", "e", "s", "s">>
StrTimedOut ==
    <<"O", "p", "e", "r", "a", "t", "i", "o", "n", " ", "t", "i", "m", "e",
      "d", " ", "o", "u", "t">>
StrAborted ==
    <<"O", "p", "e", "r", "a", "t", "i", "o", "n", " ", "a", "b", "o", "r",
      "t", "e", "d">>
StrBusy ==
    <<"R", "e", "s", "o", "u", "r", "c", "e", " ", "b", "u", "s", "y">>
StrExpired ==
    <<"O", "p", "e", "r", "a", "t", "i", "o", "n", " ", "e", "x", "p", "i",
      "r", "e", "d">>
StrTryAgain ==
    <<"O", "p", "e", "r", "a", "t", "i", "o", "n", " ", "f", "a", "i", "l",
      "e", "d", ".", " ", "T", "r", "y", " ", "a", "g", "a", "i", "n", ".">>
StrCompactionTooLarge ==
    <<"C", "o", "m", "p", "a", "c", "t", "i", "o", "n", " ", "t", "o", "o",
      " ", "l", "a", "r", "g", "e">>
StrColumnFamilyDropped ==
    <<"C", "o", "l", "u", "m", "n", " ", "f", "a", "m", "i", "l", "y", " ",
      "d", "r", "o", "p", "p", "e", "d">>

\* enum ErrorKind.
ErrorKind ==
    {"NotFound", "Corruption", "NotSupported", "InvalidArgument", "IOError",
     "MergeInProgress", "Incomplete", "ShutdownInProgress", "TimedOut",
     "Aborted", "Busy", "Expired", "TryAgain", "CompactionTooLarge",
     "ColumnFamilyDropped", "Unknown"}

\* str::split(':'): the pieces between the colons, in order; there is always
\* at least one piece (the empty message splits into one empty piece).
RECURSIVE Split(_, _)
Split(s, cur) ==
    IF s = <<>> THEN <<cur>>
    ELSE IF Head(s) = ":" THEN <<cur>> \o Split(Tail(s), <<>>)
    ELSE Split(Tail(s), Append(cur, Head(s)))

FirstOr_last(pieces, default) ==
    IF pieces = <<>> THEN default ELSE pieces[Len(pieces)]

\* Iterator::next().unwrap_or(""): the first piece, "" if there is none.
FirstOr(pieces, default) == IF pieces = <<>> THEN default ELSE Head(pieces)

MatchKind_arms_swapped(p) ==
    CASE p = StrNotFound -> "NotFound"
      [] p = StrCorruption -> "Corruption"
      [] p = StrNotSupported -> "NotSupported"
      [] p = StrInvalidArgument -> "InvalidArgument"
      [] p = StrIOError -> "IOError"
      [] p = StrMergeInProgress -> "MergeInProgress"
      [] p = StrIncomplete -> "Incomplete"
      [] p = StrShutdownInProgress -> "ShutdownInProgress"
      [] p = StrTimedOut -> "Aborted"
      [] p = StrAborted -> "TimedOut"
      [] p = StrBusy -> "Busy"
      [] p = StrExpired -> "Expired"
      [] p = StrTryAgain -> "TryAgain"
      [] p = StrCompactionTooLarge -> "CompactionTooLarge"
      [] p = StrColumnFamilyDropped -> "ColumnFamilyDropped"
      [] OTHER -> "Unknown"

\* The arms of the match in Error::kind, applied to the string matched on.
MatchKind(p) ==
    CASE p = StrNotFound -> "NotFound"
      [] p = StrCorruption -> "Corruption"
      [] p = StrNotSupported -> "NotSupported"
      [] p = StrInvalidArgument -> "InvalidArgument"
      [] p = StrIOError -> "IOError"
      [] p = StrMergeInProgress -> "MergeInProgress"
      [] p = StrIncomplete -> "Incomplete"
      [] p = StrShutdownInProgress -> "ShutdownInProgress"
      [] p = StrTimedOut -> "TimedOut"
      [] p = StrAborted -> "Aborted"
      [] p = StrBusy -> "Busy"
      [] p = StrExpired -> "Expired"
      [] p = StrTryAgain -> "TryAgain"
      [] p = StrCompactionTooLarge -> "CompactionTooLarge"
      [] p = StrColumnFamilyDropped -> "ColumnFamilyDropped"
      [] OTHER -> "Unknown"

IsPrefix(t, s) == Len(t) <= Len(s) /\ SubSeq(s, 1, Len(t)) = t

kind_starts_with(e) ==
    CASE IsPrefix(StrNotFound, e.message) -> "NotFound"
      [] IsPrefix(StrCorruption, e.message) -> "Corruption"
      [] IsPrefix(StrNotSupported, e.message) -> "NotSupported"
      [] IsPrefix(StrInvalidArgument, e.message) -> "InvalidArgument"
      [] IsPrefix(StrIOError, e.message) -> "IOError"
      [] IsPrefix(StrMergeInProgress, e.message) -> "MergeInProgress"
      [] IsPrefix(StrIncomplete, e.message) -> "Incomplete"
      [] IsPrefix(StrShutdownInProgress, e.message) -> "ShutdownInProgress"
      [] IsPrefix(StrTimedOut, e.message) -> "TimedOut"
      [] IsPrefix(StrAborted, e.message) -> "Aborted"
      [] IsPrefix(StrBusy, e.message) -> "Busy"
      [] IsPrefix(StrExpired, e.message) -> "Expired"
      [] IsPrefix(StrTryAgain, e.message) -> "TryAgain"
      [] IsPrefix(StrCompactionTooLarge, e.message) -> "CompactionTooLarge"
      [] IsPrefix(StrColumnFamilyDropped, e.message) -> "ColumnFamilyDropped"
      [] OTHER -> "Unknown"

\* Error::kind(&self).
kind(e) == MatchKind(FirstOr(Split(e.message, <<>>), <<>>))

\* Messages the engine hands to Error::new: every pattern of the match and its
\* near misses, alone and followed by a colon and more text, and every short
\* string over a small alphabet.
Patterns ==
    {StrNotFound, StrCorruption, StrNotSupported, StrInvalidArgument,
     StrIOError, StrMergeInProgress, StrIncomplete, StrShutdownInProgress,
     StrTimedOut, StrAborted, StrBusy, StrExpired, StrTryAgain,
     StrCompactionTooLarge, StrColumnFamilyDropped}

LowerChars ==
    <<"a", "b", "c", "d", "e", "f", "g", "h", "i", "j", "k", "l", "m", "n",
      "o", "p", "q", "r", "s", "t", "u", "v", "w", "x", "y", "z">>
UpperChars ==
    <<"A", "B", "C", "D", "E", "F", "G", "H", "I", "J", "K", "L", "M", "N",
      "O", "P", "Q", "R", "S", "T", "U", "V", "W", "X", "Y", "Z">>

SwapCase(c) ==
    IF \E i \in 1..Len(LowerChars) : LowerChars[i] = c
    THEN UpperChars[CHOOSE i \in 1..Len(LowerChars) : LowerChars[i] = c]
    ELSE IF \E i \in 1..Len(UpperChars) : UpperChars[i] = c
    THEN LowerChars[CHOOSE i \in 1..Len(UpperChars) : UpperChars[i] = c]
    ELSE c

NearMisses(t) ==
    {t,
     <<SwapCase(Head(t))>> \o Tail(t),
     <<" ">> \o t,
     t \o <<" ">>,
     t \o <<"x">>,
     <<"x">> \o t,
     SubSeq(t, 1, Len(t) - 1),
     Tail(t)}

StrUnrecognized ==
    <<"t", "o", "t", "a", "l", "l", "y", " ", "u", "n", "r", "e", "c", "o",
      "g", "n", "i", "z", "e", "d", " ", "t", "e", "x", "t">>

Heads ==
    UNION {NearMisses(t) : t \in Patterns} \cup {<<>>, <<"x">>, StrUnrecognized}

StrKeyMissing ==
    <<":", " ", "k", "e", "y", " ", "m", "i", "s", "s", "i", "n", "g">>
StrDiskFull ==
    <<":", " ", "d", "i", "s", "k", " ", "f", "u", "l", "l">>
StrThenNotFound ==
    <<":", " ", "N", "o", "t", "F", "o", "u", "n", "d">>
StrThenNotFoundY ==
    <<":", " ", "N", "o", "t", "F", "o", "u", "n", "d", ":", " ", "y">>

Rests == {<<>>, <<":">>, StrKeyMissing, StrDiskFull, StrThenNotFound, StrThenNotFoundY}

\* Length of the short strings enumerated in full.
MaxShort == 3
ShortAlphabet == {":", " ", "N", "x"}
ShortStrings == UNION {[1..n -> ShortAlphabet] : n \in 0..MaxShort}

Messages == {h \o r : h \in Heads, r \in Rests} \cup ShortStrings

NoError == [some |-> FALSE, message |-> <<>>]

as_ref_first_piece(e) == FirstOr(Split(e.message, <<>>), <<>>)

\* impl AsRef<str> for Error: &self.message.
as_ref(e) == e.message

\* impl error::Error for Error, description: &self.message.
description(e) == e.message

\* impl From<Error> for String: e.message, moved out.
StringFromError(e) == e.message

\* Error::into_string: self.into().
into_string(e) == StringFromError(e)

\* The formatter a Display call gets: the width and the precision of the
\* format spec (0: no width, -1: no precision) and its alignment; the fill is
\* a space.  "{}" and to_string() carry neither width nor precision.
FmtWidths == {0, 30}
FmtPrecisions == {-1, 3}
FmtAligns == {"left", "right", "center"}
FormatSpecs == [width : FmtWidths, precision : FmtPrecisions, align : FmtAligns]
DefaultSpec == [width |-> 0, precision |-> -1, align |-> "left"]

Spaces(n) == [i \in 1..n |-> " "]

\* <String as Display>::fmt, that is Formatter::pad: the string cut to the
\* precision, then filled up to the width on the side the alignment leaves.
Pad(s, spec) ==
    LET t == IF spec.precision >= 0 /\ Len(s) > spec.precision
             THEN SubSeq(s, 1, spec.precision)
             ELSE s
        n == spec.width - Len(t)
    IN IF n <= 0 THEN t
       ELSE CASE spec.align = "left" -> t \o Spaces(n)
              [] spec.align = "right" -> Spaces(n) \o t
              [] OTHER -> Spaces(n \div 2) \o t \o Spaces(n - (n \div 2))

\* impl fmt::Display for Error: self.message.fmt(formatter).
fmt(e, spec) == Pad(e.message, spec)

NoText == [op |-> "none", spec |-> DefaultSpec, text |-> <<>>]

\* Error::new(message).
ErrorNew(m) ==
    /\ ~err.some
    /\ err' = [some |-> TRUE, message |-> m]
    /\ kindOut' = "none"
    /\ made' = m
    /\ textOut' = NoText
    /\ UNCHANGED bridgeVars

\* Error::kind(&self) called on the Error value.
Kind ==
    /\ err.some
    /\ kindOut' = kind(err)
    /\ UNCHANGED <<err, made, textOut>>
    /\ UNCHANGED bridgeVars

\* e.as_ref().
AsRef ==
    /\ err.some
    /\ textOut' = [op |-> "as_ref", spec |-> DefaultSpec, text |-> as_ref(err)]
    /\ UNCHANGED <<err, kindOut, made>>
    /\ UNCHANGED bridgeVars

\* e.description().
Description ==
    /\ err.some
    /\ textOut' = [op |-> "description", spec |-> DefaultSpec,
                   text |-> description(err)]
    /\ UNCHANGED <<err, kindOut, made>>
    /\ UNCHANGED bridgeVars

\* The Error value formatted through Display with a format spec.
Display(spec) ==
    /\ err.some
    /\ textOut' = [op |-> "display", spec |-> spec, text |-> fmt(err, spec)]
    /\ UNCHANGED <<err, kindOut, made>>
    /\ UNCHANGED bridgeVars

\* e.into_string(): the Error value is consumed, its String handed out.
IntoString ==
    /\ err.some
    /\ textOut' = [op |-> "into_string", spec |-> DefaultSpec,
                   text |-> into_string(err)]
    /\ err' = NoError
    /\ UNCHANGED <<kindOut, made>>
    /\ UNCHANGED bridgeVars

\* The Error value goes out of scope.
ErrorDrop ==
    /\ err.some
    /\ err' = NoError
    /\ kindOut' = "none"
    /\ made' = <<>>
    /\ textOut' = NoText
    /\ UNCHANGED bridgeVars

(***************************************************************************)
(* Specifications                                                          *)
(***************************************************************************)

InitBridge ==
    /\ heap = [a \in Addr |-> FreeCell]
    /\ owned = {}
    /\ factory = [live |-> TRUE, name |-> "factory", created |-> 0]
    /\ job = [j \in Jobs |-> IdleJob]
    /\ outstanding = 0
    /\ nameOut = "none"
    /\ fault = "none"

InitErr ==
    /\ err = NoError
    /\ kindOut = "none"
    /\ made = <<>>
    /\ textOut = NoText

Init == InitBridge /\ InitErr

\* The engine's compaction threads driving the bridge.
Next ==
    \/ \E j \in Jobs, raw \in RawContexts : CreateEnter(j, raw)
    \/ \E j \in Jobs : UserCreate(j)
    \/ \E j \in Jobs : UserCreatePanic(j)
    \/ \E j \in Jobs, a \in Addr : BoxFilter(j, a)
    \/ \E j \in Jobs : CreateReturn(j)
    \/ \E j \in Jobs : Decide(j)
    \/ \E j \in Jobs : FilterName(j)
    \/ \E j \in Jobs : Destroy(j)
    \/ FactoryName
    \/ FactoryDestructor

Spec == Init /\ [][Next]_vars

\* The engine's scheduler is fair to every job: a create call that can take
\* its next step takes it (the user's create returns, the allocation is made,
\* the trampoline returns), and a job that runs is ended by the engine.
Fairness ==
    \A j \in Jobs :
        /\ WF_vars(UserCreate(j))
        /\ WF_vars(\E a \in Addr : BoxFilter(j, a))
        /\ WF_vars(CreateReturn(j))
        /\ WF_vars(Destroy(j))

SpecFair == Init /\ [][Next]_vars /\ Fairness

\* The application classifying the messages of the engine's errors.
NextErr ==
    \/ \E m \in Messages : ErrorNew(m)
    \/ Kind
    \/ AsRef
    \/ Description
    \/ \E spec \in FormatSpecs : Display(spec)
    \/ IntoString
    \/ ErrorDrop

SpecErr == Init /\ [][NextErr]_vars

(***************************************************************************)
(* Properties                                                              *)
(***************************************************************************)

Running(j) == job[j].pc = "running"
Done(j) == job[j].pc = "done"
StateOf(j) == job[j].handle.state

\* C1: every create call that returned a handle ran the factory's create
\* exactly once, and its handle denotes one live allocation made for that very
\* call; no two live handles denote the same allocation.
C1_FreshFilterPerCreate ==
    \A j \in Jobs :
        Running(j) =>
            /\ job[j].creates = 1
            /\ Live(heap, StateOf(j))
            /\ heap[StateOf(j)].owner = j
            /\ \A k \in Jobs \ {j} : Running(k) => StateOf(k) # StateOf(j)

\* Two jobs hold live handles at the same time.
C1_Witness ==
    \E j, k \in Jobs : j # k /\ Running(j) /\ Running(k)

\* The job whose callback a step runs: a decide of job j routes one more key
\* to it, a destroy of job j ends it.
DecideStep(j) == job'[j].routed = job[j].routed + 1
DestroyStep(j) == Running(j) /\ job'[j].pc = "done"

\* C2: from the return of create to the matching destroy no Box and no create
\* frame of the bridge refers to the handle's allocation (the factory holds no
\* pointers at all), and the only steps that change or release the allocation
\* are the decide and the destroy the engine runs with that handle.
C2_ExclusiveOwnership ==
    [][\A j \in Jobs :
          /\ Running(j)' =>
                /\ Live(heap', StateOf(j)')
                /\ StateOf(j)' \notin owned'
                /\ \A k \in Jobs : job'[k].filter_ptr # StateOf(j)'
          /\ (Running(j) /\ heap'[StateOf(j)] # heap[StateOf(j)]) =>
                DecideStep(j) \/ DestroyStep(j)]_vars

\* A filter was changed through its handle while another job's create frame
\* holds a raw pointer of its own.
C2_Witness ==
    \E j, k \in Jobs :
        /\ Running(j) /\ Live(heap, StateOf(j)) /\ heap[StateOf(j)].count > 0
        /\ job[k].pc = "boxed"

\* C3: under every interleaving, a decide or destroy of job j changes only the
\* Filter that job j's create made, and that is the one its handle denotes.
C3_JobsSelfContained ==
    [][\A j \in Jobs :
          (DecideStep(j) \/ DestroyStep(j)) =>
              /\ heap'[StateOf(j)] # heap[StateOf(j)]
              /\ \A a \in Addr :
                    heap'[a] # heap[a] => a = StateOf(j) /\ heap[a].owner = j]_vars

\* Two jobs run interleaved: each filter has received decide calls.
C3_Witness ==
    \E j, k \in Jobs :
        /\ j # k /\ Running(j) /\ Running(k)
        /\ Live(heap, StateOf(j)) /\ heap[StateOf(j)].count >= 1
        /\ Live(heap, StateOf(k)) /\ heap[StateOf(k)].count >= 1

\* C4: every handle create returned is destroyed exactly once; the allocation
\* counter counts the live filter allocations, is never negative, and is zero
\* once all jobs are complete; nothing is released twice.
C4_ExactlyOnceDestroy ==
    /\ outstanding >= 0
    /\ outstanding = Cardinality({a \in Addr : Live(heap, a)})
    /\ outstanding = Cardinality({j \in Jobs : job[j].pc \in {"boxed", "running"}})
    /\ fault # "double_free"
    /\ \A j \in Jobs :
          /\ Running(j) => job[j].destroys = 0
          /\ Done(j) => job[j].destroys = 1
    /\ (\A j \in Jobs : Done(j)) => outstanding = 0

\* All jobs are complete.
C4_Witness ==
    /\ \A j \in Jobs : Done(j) /\ job[j].destroys = 1
    /\ outstanding = 0

\* C5: a fault raised inside the create trampoline is contained: no panic of
\* the user's create leaves the trampoline as a native-level fault, and the
\* job gets a handle.
C5_CreateFaultContained ==
    /\ fault \notin {"abort", "unwind"}
    /\ \A j \in Jobs : job[j].pc # "panicked"

\* The fifteen rows of the classification table.
KindTable ==
    <<<<StrNotFound, "NotFound">>,
      <<StrCorruption, "Corruption">>,
      <<StrNotSupported, "NotSupported">>,
      <<StrInvalidArgument, "InvalidArgument">>,
      <<StrIOError, "IOError">>,
      <<StrMergeInProgress, "MergeInProgress">>,
      <<StrIncomplete, "Incomplete">>,
      <<StrShutdownInProgress, "ShutdownInProgress">>,
      <<StrTimedOut, "TimedOut">>,
      <<StrAborted, "Aborted">>,
      <<StrBusy, "Busy">>,
      <<StrExpired, "Expired">>,
      <<StrTryAgain, "TryAgain">>,
      <<StrCompactionTooLarge, "CompactionTooLarge">>,
      <<StrColumnFamilyDropped, "ColumnFamilyDropped">>>>

\* p is the text of m before its first colon (all of m if it has none).
IsPreColon(p, m) ==
    /\ \A i \in 1..Len(p) : p[i] # ":"
    /\ Len(p) <= Len(m)
    /\ \A i \in 1..Len(p) : m[i] = p[i]
    /\ Len(m) > Len(p) => m[Len(p) + 1] = ":"

Classified == err.some /\ kindOut # "none"

\* C6: when the text before the first colon is a row of the table, kind
\* returns that row's kind.
C6_KindFollowsTable ==
    Classified =>
        \A i \in 1..Len(KindTable) :
            IsPreColon(KindTable[i][1], err.message) => kindOut = KindTable[i][2]

\* "Operation timed out: ..." was classified.
C6_Witness ==
    /\ Classified
    /\ err.message = StrTimedOut \o StrDiskFull
    /\ kindOut = "TimedOut"

\* C7: kind always returns a member of ErrorKind, and Unknown whenever the
\* text before the first colon is not a row of the table.
C7_UnknownOtherwise ==
    Classified =>
        /\ kindOut \in ErrorKind
        /\ (\A i \in 1..Len(KindTable) : ~IsPreColon(KindTable[i][1], err.message))
              => kindOut = "Unknown"

\* A message whose pre-colon text only starts with a row of the table.
C7_Witness ==
    /\ Classified
    /\ err.message = (StrNotFound \o <<"x">>) \o StrKeyMissing
    /\ kindOut = "Unknown"

Translated(raw) ==
    [is_full_compaction |-> raw.full \in FlagValues \ {0},
     is_manual_compaction |-> raw.manual \in FlagValues \ {0}]

\* C8: translating the context raises no fault and sets each boolean to
\* "the engine's flag is nonzero"; the Filter the factory's create makes for
\* the job is made from exactly that value.
C8_ContextTranslated ==
    [][\A j \in Jobs :
          /\ (job[j].pc = "idle" /\ job'[j].pc = "entered") =>
                /\ fault' = "none"
                /\ job'[j].context \in [is_full_compaction : BOOLEAN,
                                        is_manual_compaction : BOOLEAN]
                /\ job'[j].context = Translated(job'[j].raw)
          /\ (job[j].pc = "entered" /\ job'[j].pc = "created") =>
                /\ job[j].context = Translated(job[j].raw)
                /\ job'[j].filter.ctx = Translated(job[j].raw)]_vars

\* A context whose full-compaction flag is nonzero but not 1.
C8_Witness ==
    \E j \in Jobs :
        /\ job[j].pc = "entered"
        /\ job[j].raw = [full |-> 255, manual |-> 0]
        /\ job[j].context = [is_full_compaction |-> TRUE,
                             is_manual_compaction |-> FALSE]

\* C9: each Filter's counter equals the number of keys routed to its own job,
\* while the job runs and when it ends.
C9_CountersIndependent ==
    \A j \in Jobs :
        /\ Running(j) => Live(heap, StateOf(j)) /\ heap[StateOf(j)].count = job[j].routed
        /\ Done(j) => job[j].finalCount = job[j].routed

\* Two concurrent jobs with different contexts and different key counts.
C9_Witness ==
    \E j, k \in Jobs :
        /\ Running(j) /\ Running(k)
        /\ Live(heap, StateOf(j)) /\ Live(heap, StateOf(k))
        /\ heap[StateOf(j)].ctx # heap[StateOf(k)].ctx
        /\ job[j].routed = 1 /\ job[k].routed = 2

\* C10: a decide runs only on a handle that was not destroyed and whose
\* allocation is live; after its one destroy a job's handle receives no call;
\* no callback touches a released allocation.
C10_NoUseAfterDestroy ==
    [][/\ fault' \notin {"use_after_free", "double_free"}
       /\ \A j \in Jobs :
             /\ DecideStep(j) =>
                   Running(j) /\ job[j].destroys = 0 /\ Live(heap, StateOf(j))
             /\ Running(j)' => Live(heap', StateOf(j)')
             /\ Done(j) => job'[j] = job[j]
             /\ job'[j].destroys <= 1]_vars

\* A job was destroyed after all its keys were decided.
C10_Witness ==
    \E j \in Jobs : Done(j) /\ job[j].routed = MaxKeys /\ job[j].destroys = 1

\* C11: the factory is released only by its own destructor callback, a step
\* that belongs to no job and returns no name; every step of a create call
\* leaves the factory live, with the same identifier, ready for further calls.
C11_FactoryBorrowed ==
    [][/\ (factory.live /\ ~factory'.live) =>
             job' = job /\ heap' = heap /\ nameOut' = nameOut
       /\ \A j \in Jobs :
             ((job[j].pc = "idle" \/ InCreate(j)) /\ job'[j] # job[j]) =>
                 factory'.live /\ factory'.name = factory.name]_vars

\* Every job's create call has returned and the factory is still live.
C11_Witness ==
    /\ factory.live
    /\ \A j \in Jobs : job[j].creates = 1 /\ job[j].pc \in {"running", "done"}

\* The kind the table gives a message: the kind of the row that is the text
\* before its first colon, Unknown if no row is.
TableKind(m) ==
    IF \E i \in 1..Len(KindTable) : IsPreColon(KindTable[i][1], m)
    THEN KindTable[CHOOSE i \in 1..Len(KindTable) : IsPreColon(KindTable[i][1], m)][2]
    ELSE "Unknown"

\* A format spec that neither cuts nor fills message m.
ExactSpec(spec, m) ==
    /\ spec.precision < 0 \/ spec.precision >= Len(m)
    /\ spec.width <= Len(m)

ExactText(t, m) ==
    \/ t.op \in {"as_ref", "description", "into_string"}
    \/ t.op = "display" /\ ExactSpec(t.spec, m)

\* C12 as stated: whatever accessor reported a text, as_ref, Display,
\* description or into_string, the text is exactly the message the Error was
\* constructed with.
C12_AllAccessorsExact ==
    textOut.op # "none" => textOut.text = made

\* C12, amended: no call on a live Error changes its message, which is the
\* one it was constructed with; as_ref, description and into_string report
\* exactly that message, and so does Display when the format spec neither
\* cuts nor fills it (as "{}" and to_string do); the kind returned is the
\* table's kind of the text so reported.
C12_MessageAuthoritative ==
    [][/\ err'.some => err'.message = made'
       /\ (err.some /\ err'.some) => err'.message = err.message
       /\ ExactText(textOut', made') => textOut'.text = made'
       /\ (kindOut' # "none" /\ ExactText(textOut', made')) =>
             kindOut' = TableKind(textOut'.text)]_vars

\* Round trip: "IO error: disk full" classified, then taken out again by
\* into_string.
C12_Witness ==
    /\ ~err.some
    /\ textOut.op = "into_string"
    /\ textOut.text = StrIOError \o StrDiskFull
    /\ made = StrIOError \o StrDiskFull
    /\ kindOut = "IOError"

\* C14: a call of the factory's name callback returns the identifier of the
\* live factory and changes nothing else: the factory, the filters, the jobs
\* and the allocation counter stay as they were; the identifier of the
\* factory never changes.
C14_NameChangesNothing ==
    [][/\ (nameOut' # nameOut /\ nameOut' = "factory") =>
             /\ factory.live
             /\ nameOut' = factory.name
             /\ factory' = factory
             /\ heap' = heap /\ owned' = owned /\ job' = job
             /\ outstanding' = outstanding /\ fault' = fault
       /\ factory'.name = factory.name]_vars

\* The name was asked of a factory that has made a filter and is still live.
C14_Witness ==
    /\ nameOut = "factory"
    /\ factory.live
    /\ \E j \in Jobs : Running(j)

\* The jobs whose create call holds the &mut borrow of the factory: from the
\* entry of the trampoline to the return of the factory's create.
Borrowers == {j \in Jobs : job[j].pc = "entered"}

\* C16: at any instant at most one create call holds the exclusive reference
\* to the factory: the factory's create never runs in two jobs at once.
C16_ExclusiveFactoryBorrow ==
    Cardinality(Borrowers) <= 1

\* C15: while the process runs, every step of a create call and the destroy
\* of a running job are enabled whatever the other jobs are doing (no callback
\* waits for another job), and under a fair scheduler every job that entered
\* create reaches its destroy unless the process goes down.
C15_NoWaitingAndProgress ==
    /\ [](fault = "none" =>
            \A j \in Jobs :
                /\ job[j].pc = "entered" => ENABLED UserCreate(j)
                /\ job[j].pc = "created" => ENABLED (\E a \in Addr : BoxFilter(j, a))
                /\ job[j].pc = "boxed" => ENABLED CreateReturn(j)
                /\ Running(j) => ENABLED Destroy(j))
    /\ \A j \in Jobs :
          (InCreate(j) \/ Running(j)) ~> (Done(j) \/ fault # "none")

\* One job has reached its destroy while another is inside create and the
\* process runs.
C15_Witness ==
    /\ fault = "none"
    /\ \E j, k \in Jobs : Done(j) /\ job[k].pc = "created"

\* C17: the step that releases the factory changes no filter, no job and no
\* counter; a filter that runs after it is still live and can be decided,
\* named and destroyed; the destroy of one job's filter changes neither the
\* factory nor any other filter or job.
C17_DestructorsIndependent ==
    /\ []((~factory.live /\ fault = "none") =>
            \A j \in Jobs :
                Running(j) =>
                    /\ Live(heap, StateOf(j))
                    /\ heap[StateOf(j)].count = job[j].routed
                    /\ job[j].routed < MaxKeys => ENABLED Decide(j)
                    /\ ENABLED FilterName(j)
                    /\ ENABLED Destroy(j))
    /\ [][/\ (factory.live /\ ~factory'.live) =>
                 /\ heap' = heap /\ owned' = owned /\ job' = job
                 /\ outstanding' = outstanding /\ fault' = fault
           /\ \A j \in Jobs :
                 DestroyStep(j) =>
                     /\ factory' = factory
                     /\ \A a \in Addr \ {StateOf(j)} : heap'[a] = heap[a]
                     /\ \A k \in Jobs \ {j} : job'[k] = job[k]]_vars

\* The factory is released, one job is done and another job's filter, which
\* has decided all its keys, is still live.
C17_Witness ==
    /\ ~factory.live
    /\ fault = "none"
    /\ \E j, k \in Jobs :
          /\ Done(k)
          /\ Running(j) /\ Live(heap, StateOf(j))
          /\ heap[StateOf(j)].count = MaxKeys

\* The text of m before its first colon.
PreColon(m) ==
    SubSeq(m, 1, CHOOSE n \in 0..Len(m) : IsPreColon(SubSeq(m, 1, n), m))

\* What may follow the text before the first colon: nothing, or a colon and
\* any text, a row of the table included.
Continuations == Rests \cup {<<":">> \o p : p \in Patterns}

\* C18: the kind returned for a message is the kind of the text before its
\* first colon followed by anything else, a row of the table included; "x:
\* NotFound" is Unknown and "IO error: NotFound: y" is IOError.
C18_OnlyPreColonMatters ==
    Classified =>
        /\ \A r \in Continuations :
              kind([some |-> TRUE, message |-> PreColon(err.message) \o r]) = kindOut
        /\ err.message = <<"x">> \o StrThenNotFound => kindOut = "Unknown"
        /\ err.message = StrIOError \o StrThenNotFoundY => kindOut = "IOError"

\* "IO error: NotFound: y" was classified.
C18_Witness ==
    /\ Classified
    /\ err.message = StrIOError \o StrThenNotFoundY
    /\ kindOut = "IOError"

====
